---- MODULE Spec2Model ----
(***************************************************************************)
(* Rolling-window keypoint aggregation and threshold alerting of           *)
(* src/src/index.js: updateKeypointsData, updateGraph, drawGraph, the      *)
(* slider and toggle handlers of setupThresholdControls, and the part of   *)
(* the render loop (renderResult, checkGuiUpdate) that drives them.        *)
(*                                                                         *)
(* Times are milliseconds as returned by performance.now().  Coordinates   *)
(* are integers; an average is kept as an exact fraction <<num, den>> in   *)
(* lowest terms, so "sum / length" is modelled without rounding.           *)
(***************************************************************************)
EXTENDS Integers, Sequences, FiniteSets, TLC

(***************************************************************************)
(* Program constants                                                       *)
(***************************************************************************)
DATA_RETENTION_WINDOW == 5000

AlertWindow == 1000

BeepSpacing == 1000

DefaultThreshold == 300

SliderMin == 0

SliderMax == 480

\* the five tracked indices, [0, 1, 2, 3, 4]
TrackedPoints == 0 .. 4

(***************************************************************************)
(* Bounds of the model                                                     *)
(***************************************************************************)
\* number of animation frames (calls of renderPrediction) explored
MaxTicks == 2

\* time between two frames: just inside / at the alert window once the
\* second clock reading is added, and likewise for the retention window
FrameDelays == {999, 4999}

\* time between the clock reading of updateKeypointsData and the one of
\* updateGraph (two separate performance.now() calls)
ReadGaps == {0, 1}

\* slider positions explored (range 0..480, default 300)
SliderValues == {0, 300}

\* keypoint indices a pose carries: the tracked five and one more
KeypointIndices == 0 .. 5

\* number of animation frames explored when the awaits of a frame are steps
MaxFrames == 3

(***************************************************************************)
(* Numbers: exact fractions                                                *)
(***************************************************************************)
RECURSIVE GCD(_, _)
GCD(a, b) == IF b = 0 THEN a ELSE GCD(b, a % b)

\* n / d for n >= 0, d > 0
Ratio(n, d) == LET g == GCD(n, d) IN <<n \div g, d \div g>>

Zero == <<0, 1>>

\* a > k for a fraction a and an integer k
Greater(a, k) == a[1] > k * a[2]

RECURSIVE SumSeq(_)
SumSeq(s) == IF s = << >> THEN 0 ELSE Head(s) + SumSeq(Tail(s))

(***************************************************************************)
(* Pose source: what detector.estimatePoses resolves to                    *)
(***************************************************************************)
NoKeypoint == [defined |-> FALSE, x |-> 0, y |-> 0, score |-> 0]

Keypoint(x, y, score) == [defined |-> TRUE, x |-> x, y |-> y, score |-> score]

\* a pose whose keypoints of S are present, at the heights ys; the array
\* `keypoints' is the tuple of its elements 0..5, element i at position i + 1
Pose(S, ys, x, score) ==
  LET kp(i) == IF i \in S THEN Keypoint(x, ys[i], score) ELSE NoKeypoint
  IN  [keypoints |-> <<kp(0), kp(1), kp(2), kp(3), kp(4), kp(5)>>]

YLow == [i \in KeypointIndices |-> 100]

YMixed == [i \in KeypointIndices |-> IF i = 4 THEN 100 ELSE 400]

YOther == [i \in KeypointIndices |-> IF i = 4 THEN 400 ELSE 100]

PresentSets == {{0}, TrackedPoints}

\* the value of the local variable `poses' of renderResult: null, or a list
NullPoses == [null |-> TRUE, items |-> << >>]

PoseList(items) == [null |-> FALSE, items |-> items]

\* estimatePoses throws (poses stays null), or resolves to a list of poses:
\* empty, one pose, or two poses with an untracked keypoint, other x and score
EstimateResults ==
  {[threw |-> TRUE, poses |-> NullPoses]}
    \cup {[threw |-> FALSE, poses |-> PoseList(<< >>)]}
    \cup {[threw |-> FALSE, poses |-> PoseList(<<Pose(S, ys, 0, 90)>>)] :
            S \in PresentSets, ys \in {YLow, YMixed}}
    \cup {[threw |-> FALSE,
           poses |-> PoseList(<<Pose(S \cup {5}, ys, 320, 10),
                                Pose(KeypointIndices, YOther, 5, 90)>>)] :
            S \in PresentSets, ys \in {YLow, YMixed}}

(***************************************************************************)
(* State                                                                   *)
(***************************************************************************)
VARIABLES
  now,            \* the clock behind performance.now()
  threshold,      \* let threshold
  alertEnabled,   \* let alertEnabled
  lastBeepTime,   \* let lastBeepTime
  keypointsData,  \* let keypointsData: index -> list of {time, y}
  chartData,      \* chart.data.datasets[0].data
  detector,       \* detector != null
  ticks,          \* frames rendered so far
  beepLog,        \* clock readings of the evaluations that called beep()
  evalLog,        \* record of the latest run of updateKeypointsData/updateGraph
  running,        \* the calls of renderPrediction in progress: where each is
  requested,      \* animation frames requested and not yet fired (rafId)
  guiChanged,     \* STATE.isModelChanged || isFlagChanged || isBackendChanged
  sync,           \* record of the latest run of lines 77-89 (the ingest)
  failed          \* estimatePoses threw and no detector was created since

loopVars == <<running, requested, guiChanged, sync, failed>>

vars == <<now, threshold, alertEnabled, lastBeepTime, keypointsData,
          chartData, detector, ticks, beepLog, evalLog, loopVars>>

NoEval == [ran |-> FALSE, ingestTime |-> 0, time |-> 0, threshold |-> 0,
           alertEnabled |-> FALSE, lastBeepBefore |-> 0, beeped |-> FALSE]

NoSync == [ingests |-> 0, evals |-> 0, time |-> 0, threshold |-> 0,
           alertEnabled |-> FALSE]

\* app() has set up the controls and calls renderPrediction (line 281), taken
\* as the first frame
Init ==
  /\ running = << >>
  /\ requested = 1
  /\ guiChanged = FALSE
  /\ sync = NoSync
  /\ failed = FALSE
  /\ now = 0
  /\ threshold = DefaultThreshold
  /\ alertEnabled = FALSE
  /\ lastBeepTime = 0
  /\ keypointsData = [p \in TrackedPoints |-> << >>]
  /\ chartData = << >>
  /\ detector = TRUE
  /\ ticks = 0
  /\ beepLog = << >>
  /\ evalLog = NoEval

(***************************************************************************)
(* updateKeypointsData, lines 76-91                                        *)
(***************************************************************************)
Retained(history, currentTime, window) ==
  LET Keep(data) == currentTime - data.time < window
  IN  SelectSeq(history, Keep)

\* variant: keypoints below a score of 50 are skipped
PushAndFilterScored(kd, poses, currentTime) ==
  IF ~poses.null /\ Len(poses.items) > 0
  THEN LET keypoints == poses.items[1].keypoints
       IN  [point \in TrackedPoints |->
              IF keypoints[point + 1].defined /\ keypoints[point + 1].score >= 50
              THEN Retained(Append(kd[point],
                                   [time |-> currentTime, y |-> keypoints[point + 1].y]),
                            currentTime, DATA_RETENTION_WINDOW)
              ELSE kd[point]]
  ELSE kd

\* variant: every history is filtered, with the 1000 ms window
PushAndFilterAll(kd, poses, currentTime) ==
  LET present(point) == /\ ~poses.null /\ Len(poses.items) > 0
                        /\ poses.items[1].keypoints[point + 1].defined
  IN  [point \in TrackedPoints |->
         IF present(point)
         THEN Retained(Append(kd[point],
                              [time |-> currentTime,
                               y |-> poses.items[1].keypoints[point + 1].y]),
                       currentTime, DATA_RETENTION_WINDOW)
         ELSE Retained(kd[point], currentTime, AlertWindow)]

\* variant: the push without the filter
PushOnly(kd, poses, currentTime) ==
  IF ~poses.null /\ Len(poses.items) > 0
  THEN LET keypoints == poses.items[1].keypoints
       IN  [point \in TrackedPoints |->
              IF keypoints[point + 1].defined
              THEN Append(kd[point],
                          [time |-> currentTime, y |-> keypoints[point + 1].y])
              ELSE kd[point]]
  ELSE kd

\* variant: unshift in place of push
PushFrontAndFilter(kd, poses, currentTime) ==
  IF ~poses.null /\ Len(poses.items) > 0
  THEN LET keypoints == poses.items[1].keypoints
       IN  [point \in TrackedPoints |->
              IF keypoints[point + 1].defined
              THEN Retained(<<[time |-> currentTime, y |-> keypoints[point + 1].y]>>
                              \o kd[point],
                            currentTime, DATA_RETENTION_WINDOW)
              ELSE kd[point]]
  ELSE kd

\* lines 78-89: the push and the filter of the histories of the keypoints
\* that the first pose carries
PushAndFilter(kd, poses, currentTime) ==
  IF ~poses.null /\ Len(poses.items) > 0
  THEN LET keypoints == poses.items[1].keypoints
       IN  [point \in TrackedPoints |->
              IF keypoints[point + 1].defined
              THEN Retained(Append(kd[point],
                                   [time |-> currentTime, y |-> keypoints[point + 1].y]),
                            currentTime, DATA_RETENTION_WINDOW)
              ELSE kd[point]]
  ELSE kd

(***************************************************************************)
(* updateGraph, lines 344-382                                              *)
(***************************************************************************)
Ys(history) == [i \in 1 .. Len(history) |-> history[i].y]

Mean(ys) == Ratio(SumSeq(ys), Len(ys))

\* variant: the history is averaged as stored, without the filter
AvgYUnfiltered(history, currentTime) ==
  IF Len(history) = 0 THEN Zero ELSE Mean(Ys(history))

\* variant: the filter uses the 1000 ms window
AvgYShortWindow(history, currentTime) ==
  LET filteredData == Retained(history, currentTime, AlertWindow)
  IN  IF Len(filteredData) = 0 THEN Zero ELSE Mean(Ys(filteredData))

\* lines 349-355
AvgY(history, currentTime) ==
  LET filteredData == Retained(history, currentTime, DATA_RETENTION_WINDOW)
  IN  IF Len(filteredData) = 0 THEN Zero ELSE Mean(Ys(filteredData))

\* lines 348-356
GraphData(kd, currentTime) ==
  <<AvgY(kd[0], currentTime), AvgY(kd[1], currentTime), AvgY(kd[2], currentTime),
    AvgY(kd[3], currentTime), AvgY(kd[4], currentTime)>>

\* variant: the pool is taken over the retention window
DataLast1SecLongWindow(kd, currentTime) ==
  LET last1Sec(point) == Ys(Retained(kd[point], currentTime, DATA_RETENTION_WINDOW))
  IN  last1Sec(0) \o last1Sec(1) \o last1Sec(2) \o last1Sec(3) \o last1Sec(4)

\* lines 363-370
DataLast1Sec(kd, currentTime) ==
  LET last1Sec(point) == Ys(Retained(kd[point], currentTime, AlertWindow))
  IN  last1Sec(0) \o last1Sec(1) \o last1Sec(2) \o last1Sec(3) \o last1Sec(4)

\* variant: the spacing is compared with GRAPH_UPDATE_INTERVAL (100)
SpacingElapsedShort(currentTime, last) == currentTime - last > 100

\* line 376
SpacingElapsed(currentTime, last) == currentTime - last > BeepSpacing

\* variant: the average of the per-keypoint averages of the last second
AboveThresholdByKeypoint(kd, currentTime, thr) ==
  LET present == {p \in TrackedPoints :
                    Len(Retained(kd[p], currentTime, AlertWindow)) > 0}
      avg(p)  == Mean(Ys(Retained(kd[p], currentTime, AlertWindow)))
      \* sum of avg(p) * 60 over the keypoints (60 = lcm of 1 .. 5)
      scaled(p) == (avg(p)[1] * 60) \div avg(p)[2]
      RECURSIVE Total(_)
      Total(S) == IF S = {} THEN 0
                  ELSE LET p == CHOOSE q \in S : TRUE
                       IN  scaled(p) + Total(S \ {p})
  IN  /\ present # {}
      /\ Total(present) > thr * 60 * Cardinality(present)

\* lines 371-374: the pool is not empty and its average is above the threshold
AboveThreshold(kd, currentTime, thr) ==
  LET dataLast1Sec == DataLast1Sec(kd, currentTime)
  IN  /\ Len(dataLast1Sec) > 0
      /\ Greater(Mean(dataLast1Sec), thr)

\* variant: the toggle is not consulted
ShouldBeepAlways(kd, currentTime, enabled, thr, last) ==
  /\ AboveThreshold(kd, currentTime, thr)
  /\ SpacingElapsed(currentTime, last)

\* lines 371-380: whether this evaluation calls beep()
ShouldBeep(kd, currentTime, enabled, thr, last) ==
  /\ AboveThreshold(kd, currentTime, thr)
  /\ enabled
  /\ SpacingElapsed(currentTime, last)

\* variant: the new series is appended to the dataset
DrawGraphAppend(dataset, data) == dataset \o data

\* drawGraph, lines 384-387: the dataset becomes `data'
DrawGraph(dataset, data) == data

\* updateGraph(), with the clock read at t2 (line 345)
UpdateGraph(kd, t2, enabled, thr, last) ==
  LET fire == ShouldBeep(kd, t2, enabled, thr, last)
  IN  [keypointsData |-> kd,
       chartData     |-> GraphData(kd, t2),
       beep          |-> fire,
       lastBeepTime  |-> IF fire THEN t2 ELSE last]

\* updateKeypointsData(poses) with its updateGraph(): the clock is read at t1
\* (line 77) and again at t2 (line 345)
UpdateKeypointsData(kd, poses, t1, t2, enabled, thr, last) ==
  UpdateGraph(PushAndFilter(kd, poses, t1), t2, enabled, thr, last)

(***************************************************************************)
(* Operations                                                              *)
(***************************************************************************)
\* slider 'input' listener, lines 329-332
SliderInput(v) ==
  /\ threshold' = v
  /\ UNCHANGED <<now, alertEnabled, lastBeepTime, keypointsData, chartData,
                 detector, ticks, beepLog, evalLog, loopVars>>

\* variant: the toggle also resets the time of the last beep
ToggleClickResets ==
  /\ alertEnabled' = ~alertEnabled
  /\ lastBeepTime' = 0
  /\ UNCHANGED <<now, threshold, keypointsData, chartData,
                 detector, ticks, beepLog, evalLog, loopVars>>

\* toggle 'click' listener, lines 335-338
ToggleClick ==
  /\ alertEnabled' = ~alertEnabled
  /\ UNCHANGED <<now, threshold, lastBeepTime, keypointsData, chartData,
                 detector, ticks, beepLog, evalLog, loopVars>>

\* line 202 (and the bound on the frames explored)
CanEstimate == detector /\ ticks < MaxTicks

\* one frame with a detector: renderResult lines 202-229, i.e. estimatePoses
\* settles, then updateKeypointsData(poses) and its updateGraph()
RenderResult(delay, gap, result) ==
  LET t1  == now + delay
      t2  == t1 + gap
      out == UpdateKeypointsData(keypointsData, result.poses, t1, t2,
                                 alertEnabled, threshold, lastBeepTime)
  IN  /\ CanEstimate
      /\ ticks' = ticks + 1
      /\ now' = t2
      /\ detector' = ~result.threw
      /\ keypointsData' = out.keypointsData
      /\ chartData' = DrawGraph(chartData, out.chartData)
      /\ lastBeepTime' = out.lastBeepTime
      /\ beepLog' = IF out.beep THEN Append(beepLog, t2) ELSE beepLog
      /\ evalLog' = [ran |-> TRUE, ingestTime |-> t1, time |-> t2,
                     threshold |-> threshold, alertEnabled |-> alertEnabled,
                     lastBeepBefore |-> lastBeepTime, beeped |-> out.beep]
      /\ UNCHANGED <<threshold, alertEnabled, loopVars>>

\* one frame without a detector: renderResult skips lines 203-228
RenderNoDetector(delay) ==
  /\ ~detector
  /\ ticks < MaxTicks
  /\ ticks' = ticks + 1
  /\ now' = now + delay
  /\ UNCHANGED <<threshold, alertEnabled, lastBeepTime, keypointsData,
                 chartData, detector, beepLog, evalLog, loopVars>>

\* checkGuiUpdate after a model, flag or backend change, lines 144-167:
\* the detector is created again, or left null when createDetector throws
RecreateDetector(ok) ==
  /\ detector' = ok
  /\ detector' # detector
  /\ UNCHANGED <<now, threshold, alertEnabled, lastBeepTime, keypointsData,
                 chartData, ticks, beepLog, evalLog, loopVars>>

Next ==
  \/ \E v \in SliderValues : SliderInput(v)
  \/ ToggleClick
  \/ \E delay \in FrameDelays, gap \in ReadGaps, result \in EstimateResults :
       RenderResult(delay, gap, result)
  \/ \E delay \in FrameDelays : RenderNoDetector(delay)
  \/ \E ok \in BOOLEAN : RecreateDetector(ok)

Spec == Init /\ [][Next]_vars

(***************************************************************************)
(* The render loop with its awaits as steps: renderPrediction, lines       *)
(* 237-245.  `running' holds, for each call of renderPrediction in         *)
(* progress, the point it has reached:                                     *)
(*   "gui"        called, before checkGuiUpdate (line 238)                 *)
(*   "creating"   awaiting setBackendAndEnvFlags/createDetector (154-158)  *)
(*   "estimating" awaiting detector.estimatePoses (line 217)               *)
(*   "ingested"   inside updateKeypointsData, before updateGraph (line 90) *)
(***************************************************************************)
\* what estimatePoses settles with in this specification
LoopResults ==
  {[threw |-> TRUE, poses |-> NullPoses],
   [threw |-> FALSE, poses |-> PoseList(<< >>)],
   [threw |-> FALSE, poses |-> PoseList(<<Pose({0}, YMixed, 0, 90)>>)]}

\* variant: the next frame is requested when renderPrediction starts
RequestsFrameFirst(stage) == stage = "start"

\* line 244: requestAnimationFrame is the last statement of renderPrediction,
\* after the awaits of lines 238 and 241
RequestsFrame(stage) == stage = "done"

\* variant: updateGraph is awaited
UpdateGraphAwaited == TRUE

\* line 90: updateGraph() is a plain call inside the synchronous
\* updateKeypointsData, so no other callback runs before it
UpdateGraphDeferred == FALSE

\* the event loop can run another callback
EventLoopFree ==
  \A i \in DOMAIN running : running[i] = "ingested" => UpdateGraphDeferred

Without(seq, i) == SubSeq(seq, 1, i - 1) \o SubSeq(seq, i + 1, Len(seq))

\* the call i of renderPrediction returns (line 244)
Finish(i) ==
  /\ running' = Without(running, i)
  /\ requested' = requested + (IF RequestsFrame("done") THEN 1 ELSE 0)

\* the animation frame fires: renderPrediction is called
FrameFires(delay) ==
  /\ EventLoopFree
  /\ requested > 0
  /\ ticks < MaxFrames
  /\ ticks' = ticks + 1
  /\ now' = now + delay
  /\ requested' = requested - 1 + (IF RequestsFrame("start") THEN 1 ELSE 0)
  /\ running' = Append(running, "gui")
  /\ UNCHANGED <<threshold, alertEnabled, lastBeepTime, keypointsData,
                 chartData, detector, beepLog, evalLog, guiChanged, sync, failed>>

\* checkGuiUpdate up to its first await, lines 137-158; without a change it
\* returns and renderResult runs up to its await of estimatePoses (line
\* 217), or to its end when there is no detector
CheckGuiUpdate(i) ==
  /\ EventLoopFree
  /\ running[i] = "gui"
  /\ IF guiChanged
     THEN /\ running' = [running EXCEPT ![i] = "creating"]
          /\ requested' = IF requested > 0 THEN requested - 1 ELSE 0
     ELSE IF detector
          THEN /\ running' = [running EXCEPT ![i] = "estimating"]
               /\ UNCHANGED requested
          ELSE Finish(i)
  /\ UNCHANGED <<now, threshold, alertEnabled, lastBeepTime, keypointsData,
                 chartData, detector, ticks, beepLog, evalLog, guiChanged,
                 sync, failed>>

\* createDetector settles, lines 157-166, then renderPrediction goes on to
\* renderResult (line 241) as in CheckGuiUpdate
DetectorCreated(i, ok) ==
  /\ EventLoopFree
  /\ running[i] = "creating"
  /\ detector' = ok
  /\ guiChanged' = FALSE
  /\ failed' = (failed /\ ~ok)
  /\ IF ok
     THEN /\ running' = [running EXCEPT ![i] = "estimating"]
          /\ UNCHANGED requested
     ELSE Finish(i)
  /\ UNCHANGED <<now, threshold, alertEnabled, lastBeepTime, keypointsData,
                 chartData, ticks, beepLog, evalLog, sync>>

\* estimatePoses settles, lines 217-228, and updateKeypointsData runs up to
\* its call of updateGraph: lines 77-89
Ingest(i, result) ==
  /\ EventLoopFree
  /\ running[i] = "estimating"
  /\ detector' = (detector /\ ~result.threw)
  /\ failed' = (failed \/ result.threw)
  /\ keypointsData' = PushAndFilter(keypointsData, result.poses, now)
  /\ sync' = [ingests |-> sync.ingests + 1, evals |-> sync.evals, time |-> now,
              threshold |-> threshold, alertEnabled |-> alertEnabled]
  /\ running' = [running EXCEPT ![i] = "ingested"]
  /\ UNCHANGED <<now, threshold, alertEnabled, lastBeepTime, chartData, ticks,
                 beepLog, evalLog, requested, guiChanged>>

\* updateGraph, lines 344-382, then the rest of renderResult and of
\* renderPrediction
Evaluate(i, gap) ==
  LET t2  == now + gap
      out == UpdateGraph(keypointsData, t2, alertEnabled, threshold, lastBeepTime)
  IN  /\ running[i] = "ingested"
      /\ now' = t2
      /\ chartData' = DrawGraph(chartData, out.chartData)
      /\ lastBeepTime' = out.lastBeepTime
      /\ beepLog' = IF out.beep THEN Append(beepLog, t2) ELSE beepLog
      /\ evalLog' = [ran |-> TRUE, ingestTime |-> sync.time, time |-> t2,
                     threshold |-> threshold, alertEnabled |-> alertEnabled,
                     lastBeepBefore |-> lastBeepTime, beeped |-> out.beep]
      /\ sync' = [sync EXCEPT !.evals = @ + 1]
      /\ Finish(i)
      /\ UNCHANGED <<threshold, alertEnabled, keypointsData, detector, ticks,
                     guiChanged, failed>>

\* the option panel marks a model, flag or backend change
GuiChange ==
  /\ ~guiChanged
  /\ guiChanged' = TRUE
  /\ UNCHANGED <<now, threshold, alertEnabled, lastBeepTime, keypointsData,
                 chartData, detector, ticks, beepLog, evalLog, running,
                 requested, sync, failed>>

NextLoop ==
  \/ \E v \in SliderValues : EventLoopFree /\ SliderInput(v)
  \/ EventLoopFree /\ ToggleClick
  \/ EventLoopFree /\ GuiChange
  \/ \E delay \in FrameDelays : FrameFires(delay)
  \/ \E i \in DOMAIN running : CheckGuiUpdate(i)
  \/ \E i \in DOMAIN running, ok \in BOOLEAN : DetectorCreated(i, ok)
  \/ \E i \in DOMAIN running, result \in LoopResults : Ingest(i, result)
  \/ \E i \in DOMAIN running, gap \in ReadGaps : Evaluate(i, gap)

SpecLoop == Init /\ [][NextLoop]_vars

(***************************************************************************)
(* Vocabulary of the properties.  Histories change only in RenderResult,   *)
(* which also writes evalLog, so in every state keypointsData is what the  *)
(* latest evaluation saw and evalLog.time is its clock reading.            *)
(***************************************************************************)
\* indices of the observations of keypoint p younger than `window' at time t
InWindow(p, t, window) ==
  {i \in DOMAIN keypointsData[p] : t - keypointsData[p][i].time < window}

RECURSIVE SumYAt(_, _)
SumYAt(p, I) ==
  IF I = {} THEN 0
  ELSE LET i == CHOOSE j \in I : TRUE
       IN  keypointsData[p][i].y + SumYAt(p, I \ {i})

\* the observations of the last second before the latest evaluation, pooled
PooledCount ==
  Cardinality(InWindow(0, evalLog.time, 1000))
    + Cardinality(InWindow(1, evalLog.time, 1000))
    + Cardinality(InWindow(2, evalLog.time, 1000))
    + Cardinality(InWindow(3, evalLog.time, 1000))
    + Cardinality(InWindow(4, evalLog.time, 1000))

PooledSum ==
  SumYAt(0, InWindow(0, evalLog.time, 1000))
    + SumYAt(1, InWindow(1, evalLog.time, 1000))
    + SumYAt(2, InWindow(2, evalLog.time, 1000))
    + SumYAt(3, InWindow(3, evalLog.time, 1000))
    + SumYAt(4, InWindow(4, evalLog.time, 1000))

\* the pooled 1-second average of the latest evaluation is above its threshold
PooledAbove == PooledCount > 0 /\ PooledSum > evalLog.threshold * PooledCount

\* C1: any two alert triggers are at least 1000 ms apart, whatever slider
\* and toggle events happened between them.
Claim_C1 ==
  \A i, j \in DOMAIN beepLog : i < j => beepLog[j] - beepLog[i] >= 1000

Witness_C1 == Len(beepLog) >= 2

\* C2: an evaluation that runs while alertEnabled is false triggers no alert.
Claim_C2 ==
  (evalLog.ran /\ ~evalLog.alertEnabled)
    => (~evalLog.beeped /\ lastBeepTime = evalLog.lastBeepBefore)

\* alert off, average above the threshold, more than a second since the
\* last alert: nothing fired
Witness_C2 ==
  /\ evalLog.ran
  /\ ~evalLog.alertEnabled
  /\ PooledAbove
  /\ evalLog.time - evalLog.lastBeepBefore > 1000
  /\ ~evalLog.beeped

\* C3: after every ingest at time currentTime, every observation retained in
\* the history of every tracked keypoint has currentTime - timestamp < 5000.
Claim_C3 ==
  evalLog.ran =>
    \A p \in TrackedPoints : \A i \in DOMAIN keypointsData[p] :
      evalLog.ingestTime - keypointsData[p][i].time < 5000

\* C4: at every evaluation the chart value of a keypoint with observations
\* younger than 5000 ms is the mean of the y of exactly those observations,
\* hence between their minimum and maximum.
Claim_C4 ==
  evalLog.ran =>
    \A p \in TrackedPoints :
      LET I == InWindow(p, evalLog.time, 5000)
          v == chartData[p + 1]
      IN  I # {} =>
            /\ v[2] > 0
            /\ v[1] * Cardinality(I) = SumYAt(p, I) * v[2]
            /\ \E i \in I : keypointsData[p][i].y * v[2] <= v[1]
            /\ \E i \in I : keypointsData[p][i].y * v[2] >= v[1]

\* a keypoint averaged over two different heights, one more keypoint charted
Witness_C4 ==
  /\ evalLog.ran
  /\ \E p \in TrackedPoints :
       LET I == InWindow(p, evalLog.time, 5000)
       IN  /\ \E i, j \in I : keypointsData[p][i].y # keypointsData[p][j].y
           /\ chartData[p + 1] = <<250, 1>>
  /\ \E q \in TrackedPoints : chartData[q + 1] = <<400, 1>>

\* C5: at every evaluation a keypoint without an observation younger than
\* 5000 ms is charted as exactly 0, also when its history still stores older
\* entries; with nothing ingested the chart is [0, 0, 0, 0, 0].
Claim_C5 ==
  evalLog.ran =>
    /\ Len(chartData) = 5
    /\ \A p \in TrackedPoints :
         InWindow(p, evalLog.time, 5000) = {} => chartData[p + 1] = Zero
    /\ (\A p \in TrackedPoints : keypointsData[p] = << >>)
         => chartData = <<Zero, Zero, Zero, Zero, Zero>>

\* a history that stores only entries of 5000 ms or older, charted as 0
Witness_C5 ==
  /\ evalLog.ran
  /\ \E p \in TrackedPoints :
       /\ keypointsData[p] # << >>
       /\ InWindow(p, evalLog.time, 5000) = {}
       /\ chartData[p + 1] = Zero

\* C6: while no alert has fired yet, an evaluation with the alert enabled and
\* the pooled 1-second average above the threshold triggers an alert,
\* whatever the clock reads.
Claim_C6 ==
  (evalLog.ran /\ evalLog.alertEnabled /\ PooledAbove)
    => Len(beepLog) >= 1

\* C7: an evaluation with the alert enabled, the pooled 1-second average
\* above the threshold and currentTime - lastAlertTimestamp >= 1000 (the
\* value 1000 included) triggers an alert and sets lastAlertTimestamp to
\* currentTime.  Stated for evaluations that follow an alert, so that
\* lastAlertTimestamp is the time of that alert.
Claim_C7 ==
  (/\ evalLog.ran
   /\ evalLog.alertEnabled
   /\ PooledAbove
   /\ \E i \in DOMAIN beepLog : beepLog[i] = evalLog.lastBeepBefore
   /\ evalLog.time - evalLog.lastBeepBefore >= 1000)
    => (evalLog.beeped /\ lastBeepTime = evalLog.time)

\* C8: an alert is triggered only if the mean of the observations younger
\* than 1000 ms, pooled over the five keypoints with each observation
\* counted once, is strictly above the threshold of that evaluation.
Claim_C8 ==
  (evalLog.ran /\ evalLog.beeped) =>
    /\ PooledAbove
    /\ \E p \in TrackedPoints : \E i \in InWindow(p, evalLog.time, 1000) :
         keypointsData[p][i].y > evalLog.threshold

\* an alert whose pool holds two observations of one keypoint and one of
\* another
Witness_C8 ==
  /\ evalLog.ran
  /\ evalLog.beeped
  /\ \E p, q \in TrackedPoints :
       /\ Cardinality(InWindow(p, evalLog.time, 1000)) = 2
       /\ Cardinality(InWindow(q, evalLog.time, 1000)) = 1

\* C9: an evaluation at which no keypoint has an observation younger than
\* 1000 ms triggers no alert and leaves lastBeepTime unchanged, for every
\* threshold and with the alert enabled.
Claim_C9 ==
  (evalLog.ran /\ PooledCount = 0)
    => (~evalLog.beeped /\ lastBeepTime = evalLog.lastBeepBefore)

\* alert enabled, threshold 0, older observations stored, more than a second
\* since the last alert, and an empty pool
Witness_C9 ==
  /\ evalLog.ran
  /\ evalLog.alertEnabled
  /\ evalLog.threshold = 0
  /\ evalLog.time - evalLog.lastBeepBefore > 1000
  /\ PooledCount = 0
  /\ \E p \in TrackedPoints : keypointsData[p] # << >>
  /\ ~evalLog.beeped

\* what an ingest can read of a detection result under the claim: for each of
\* the keypoints 0..4 of the first pose, whether it is present and its y
TrackedYs(result) ==
  [p \in TrackedPoints |->
     IF ~result.poses.null /\ Len(result.poses.items) > 0
          /\ result.poses.items[1].keypoints[p + 1].defined
     THEN <<TRUE, result.poses.items[1].keypoints[p + 1].y>>
     ELSE <<FALSE, 0>>]

\* histories, chart series and alert decision of an ingest of `result'
IngestOf(result, delay, gap) ==
  UpdateKeypointsData(keypointsData, result.poses, now + delay,
                      now + delay + gap, alertEnabled, threshold, lastBeepTime)

\* the results grouped by what they show of the keypoints 0..4 of the first
\* pose
ResultClasses ==
  {{r \in EstimateResults : TrackedYs(r) = k} :
     k \in {TrackedYs(r) : r \in EstimateResults}}

\* C10: two detection results that agree on presence and y of the keypoints
\* 0..4 of the first pose leave the same histories, chart series and alert
\* decision, whatever else they contain: in every state in which a frame can
\* be estimated, the results of one class have one outcome.
Claim_C10 ==
  CanEstimate =>
    \A delay \in FrameDelays, gap \in ReadGaps : \A class \in ResultClasses :
      Cardinality({IngestOf(r, delay, gap) : r \in class}) = 1

\* after an ingest that triggered an alert: two results that differ in x,
\* score, further keypoints and further poses would both record observations
\* and both trigger the next alert
Witness_C10 ==
  /\ evalLog.ran
  /\ evalLog.beeped
  /\ CanEstimate
  /\ \E r1, r2 \in EstimateResults :
       /\ Len(r1.poses.items) = 1
       /\ Len(r2.poses.items) = 2
       /\ r1.poses.items[1].keypoints[1].x # r2.poses.items[1].keypoints[1].x
       /\ TrackedYs(r1) = TrackedYs(r2)
       /\ \E delay \in FrameDelays, gap \in ReadGaps :
            /\ IngestOf(r1, delay, gap).keypointsData # keypointsData
            /\ IngestOf(r1, delay, gap).beep
            /\ IngestOf(r2, delay, gap) = IngestOf(r1, delay, gap)

SeriesValue(p) ==
  LET I == InWindow(p, evalLog.time, 5000)
  IN  IF I = {} THEN Zero ELSE Ratio(SumYAt(p, I), Cardinality(I))

\* C13: after every evaluation the chart dataset is the series computed at
\* that evaluation: exactly 5 values, keypoint 0..4 in this order; it replaces
\* the previous contents, so the length never grows.
Claim_C13 ==
  /\ Len(chartData) <= 5
  /\ evalLog.ran =>
       chartData = <<SeriesValue(0), SeriesValue(1), SeriesValue(2),
                     SeriesValue(3), SeriesValue(4)>>

\* a second evaluation whose series has different values at different places
Witness_C13 ==
  /\ evalLog.ran
  /\ \E p \in TrackedPoints : Len(keypointsData[p]) >= 2
  /\ Len(chartData) = 5
  /\ chartData[1] # chartData[5]
  /\ chartData[5] # Zero

\* C16: the length of a history is bounded by the number of ingests within
\* one 5000 ms span: its observations come from different ingests (different
\* clock readings, none later than the latest ingest) and any two of them are
\* less than 5000 ms apart.
Claim_C16 ==
  \A p \in TrackedPoints : \A i, j \in DOMAIN keypointsData[p] :
    /\ keypointsData[p][i].time <= evalLog.ingestTime
    /\ keypointsData[p][j].time - keypointsData[p][i].time < 5000
    /\ i # j => keypointsData[p][i].time # keypointsData[p][j].time

\* a keypoint whose older observation was dropped by the filter (another
\* keypoint, absent since, still stores the observation of the same ingest)
Witness_C16 ==
  \E p, q \in TrackedPoints :
    /\ Len(keypointsData[p]) = 1
    /\ Len(keypointsData[q]) = 1
    /\ keypointsData[p][1].time - keypointsData[q][1].time >= 5000

\* C17: every history is ordered by non-decreasing timestamp.
Claim_C17 ==
  \A p \in TrackedPoints : \A i, j \in DOMAIN keypointsData[p] :
    i < j => keypointsData[p][i].time <= keypointsData[p][j].time

\* a history of two observations of different ingests
Witness_C17 ==
  \E p \in TrackedPoints :
    /\ Len(keypointsData[p]) >= 2
    /\ keypointsData[p][1].time < keypointsData[p][2].time

(***************************************************************************)
(* Properties of the render loop, under SpecLoop                           *)
(***************************************************************************)
AllZero == <<Zero, Zero, Zero, Zero, Zero>>

\* C12: after the pose source has failed and frames go on, once 5000 ms have
\* passed since the last recorded observation the chart shows all zeros.
Claim_C12 ==
  (/\ failed
   /\ evalLog.ran
   /\ running = << >>
   /\ \A p \in TrackedPoints : \A i \in DOMAIN keypointsData[p] :
        now - keypointsData[p][i].time >= 5000)
    => chartData = AllZero

\* an ingest is waiting for its evaluation
EvaluationPending == \E i \in DOMAIN running : running[i] = "ingested"

\* C14: each ingest is followed by exactly one evaluation with no slider or
\* toggle event in between, and the alert decision of that evaluation is the
\* one for the threshold and alertEnabled as they were when the ingest
\* started.
Claim_C14 ==
  /\ sync.ingests - sync.evals = (IF EvaluationPending THEN 1 ELSE 0)
  /\ EvaluationPending =>
       /\ threshold = sync.threshold
       /\ alertEnabled = sync.alertEnabled
  /\ (evalLog.ran /\ ~EvaluationPending) =>
       /\ evalLog.ingestTime = sync.time
       /\ evalLog.threshold = sync.threshold
       /\ evalLog.alertEnabled = sync.alertEnabled
       /\ evalLog.beeped <=>
            /\ sync.alertEnabled
            /\ PooledCount > 0
            /\ PooledSum > sync.threshold * PooledCount
            /\ evalLog.time - evalLog.lastBeepBefore > 1000

\* the second evaluation, after slider and toggle events, with an alert
Witness_C14 ==
  /\ sync.evals = 2
  /\ ~EvaluationPending
  /\ evalLog.beeped
  /\ sync.threshold = 0
  /\ threshold # sync.threshold

\* C15: at most one call of renderPrediction is in progress, and no frame is
\* requested while one is; also across a model, flag or backend change.
Claim_C15 ==
  /\ Len(running) <= 1
  /\ running # << >> => requested = 0
  /\ requested <= 1

\* after a complete ingest and evaluation, a frame is re-creating the detector
Witness_C15 ==
  /\ sync.evals >= 1
  /\ running = <<"creating">>
  /\ requested = 0

\* C18: lastBeepTime is changed only by an evaluation that triggers an alert,
\* to the clock reading of that evaluation, and never decreases; an
\* evaluation leaves the histories unchanged; a slider event changes only
\* threshold and a toggle click only alertEnabled.
Claim_C18 ==
  [][/\ lastBeepTime' # lastBeepTime =>
          /\ evalLog' # evalLog
          /\ evalLog'.beeped
          /\ lastBeepTime' = evalLog'.time
          /\ lastBeepTime' = now'
          /\ lastBeepTime' > lastBeepTime
     /\ evalLog' # evalLog =>
          /\ keypointsData' = keypointsData
          /\ ~evalLog'.beeped => lastBeepTime' = lastBeepTime
     /\ threshold' # threshold =>
          UNCHANGED <<now, alertEnabled, lastBeepTime, keypointsData,
                      chartData, detector, beepLog, evalLog>>
     /\ alertEnabled' # alertEnabled =>
          UNCHANGED <<now, threshold, lastBeepTime, keypointsData,
                      chartData, detector, beepLog, evalLog>>]_vars

\* after an evaluation that triggered an alert, the slider was moved and the
\* toggle clicked: lastBeepTime is still the time of that evaluation
Witness_C18 ==
  /\ evalLog.ran
  /\ evalLog.beeped
  /\ lastBeepTime = evalLog.time
  /\ threshold # evalLog.threshold
  /\ alertEnabled # evalLog.alertEnabled
  /\ \E p \in TrackedPoints : keypointsData[p] # << >>

TypeOK ==
  /\ now \in Nat
  /\ threshold \in SliderMin .. SliderMax
  /\ alertEnabled \in BOOLEAN
  /\ lastBeepTime \in Nat
  /\ detector \in BOOLEAN
  /\ ticks \in Nat
  /\ requested \in Nat
  /\ guiChanged \in BOOLEAN
  /\ failed \in BOOLEAN
  /\ Len(chartData) \in {0, 5}
====
